---- MODULE Spec2Model ----
(***************************************************************************)
(* State-machine model of the mini-runtime-v2 crate: the per-thread        *)
(* execution context (CONTEXT thread-local), enter_runtime / set_current / *)
(* with_current, spawn, Runtime::block_on and the task Id generator.       *)
(***************************************************************************)
EXTENDS Integers, Sequences, FiniteSets, TLC

\* ------------------------------------------------------------------ bounds
NumHandles == 2
MaxStack == 2
MaxCalls == 2
MaxSpawns == 2
MaxIdCalls == 6
IdBits == 3
UsizeBits == 2
MaxCellOps == 3
MaxClones == 2
MaxArcs == 2
MaxWakeByRef == 2
MaxDraws == 2
MaxEntropy == 2
TidBits == 2
MaxScopes == 2
NumScoped == 2
MaxRequests == 3

\* u32 is the word of RngSeed / FastRand
U32Bits == 32

\* the threads of the process; MainThread is the one that drives runtimes
Threads == {1, 2}
MainThread == 1
Handles == 1..NumHandles

\* ------------------------------------------------------------- Option<T>
None == <<>>
Some(x) == <<x>>
is_some(o) == o # <<>>
unwrap(o) == o[1]

\* ------------------------------------------------------ fixed-width words
\* A u32 / u64 is the sequence of its bits, least significant first.
RECURSIVE BitsOf(_, _)
BitsOf(n, w) == IF w = 0 THEN <<>> ELSE <<n % 2>> \o BitsOf(n \div 2, w - 1)

U32(n) == BitsOf(n, U32Bits)
U64(hi, lo) == U32(lo) \o U32(hi)
IsZero(bits) == \A i \in DOMAIN bits : bits[i] = 0

\* `(seed >> 32) as u32`
ShiftRight32AsU32(seed) == SubSeq(seed, U32Bits + 1, 2 * U32Bits)
\* `seed as u32`
TruncU32(seed) == SubSeq(seed, 1, U32Bits)

\* ----------------------------------------------------------- util/rand.rs
VARIABLES
    COUNTER,        \* loon_rand::COUNTER
    new_seed,       \* the last RngSeed::new(): the hash it drew, the seed
    rand_seed,      \* the RngSeed the FastRand instances are built from
    rngs,           \* per instance: the FastRand, once constructed
    script,         \* the calls made on the instances, in order
    outs            \* per instance: the values its calls returned

randVars == <<COUNTER, new_seed, rand_seed, rngs, script, outs>>

from_pair(s, r) == [s |-> s, r |-> r]

\* variant: the low word is taken as it is
from_u64_unchecked(seed) ==
    from_pair(ShiftRight32AsU32(seed), TruncU32(seed))

from_u64(seed) ==
    LET one == ShiftRight32AsU32(seed)
        two == TruncU32(seed)
    IN  from_pair(one, IF IsZero(two) THEN U32(1) ELSE two)

\* variant: the second word comes from the process-wide counter, as in
\* FastRand::new()
from_seed_counted(seed) == [one |-> seed.s, two |-> U32(COUNTER)]

\* FastRand::from_seed
from_seed(seed) == [one |-> seed.s, two |-> seed.r]

\* the function f on 1..n as a sequence
AsSeq(f) == SubSeq(f, 1, Len(f))

AllOnes == AsSeq([i \in 1..U32Bits |-> 1])

\* a ^ b
Xor(a, b) == AsSeq([i \in DOMAIN a |-> (a[i] + b[i]) % 2])

\* a << k and a >> k within the width of a
Shl(a, k) == AsSeq([i \in DOMAIN a |-> IF i > k THEN a[i - k] ELSE 0])
Shr(a, k) ==
    AsSeq([i \in DOMAIN a |-> IF i + k <= Len(a) THEN a[i + k] ELSE 0])

\* byte k (from 0) of a word, and the two bytes from byte k on, as numbers
Byte(x, k) ==
    x[8 * k + 1] + 2 * x[8 * k + 2] + 4 * x[8 * k + 3] + 8 * x[8 * k + 4]
    + 16 * x[8 * k + 5] + 32 * x[8 * k + 6] + 64 * x[8 * k + 7]
    + 128 * x[8 * k + 8]
Half(x, k) == Byte(x, k) + 256 * Byte(x, k + 1)

\* a.wrapping_add(b) on u32, by halves of 16 bits
WrappingAdd(a, b) ==
    LET lo == Half(a, 0) + Half(b, 0)
        hi == Half(a, 2) + Half(b, 2) + lo \div 65536
    IN  BitsOf(lo % 65536, 16) \o BitsOf(hi % 65536, 16)

\* (a as u64).wrapping_mul(b as u64) for a, b of 32 bits: the long
\* multiplication by bytes; column k sums the products of the bytes i of a
\* and k - i of b, the carries run upwards.  The product of two u32 fits
\* in a u64, nothing wraps.
Column(a, b, k) ==
    LET I == {i \in 0..3 : k - i \in 0..3}
        term[i \in 0..3] == IF i \in I THEN Byte(a, i) * Byte(b, k - i) ELSE 0
    IN  term[0] + term[1] + term[2] + term[3]

WrappingMul(a, b) ==
    LET c0 == Column(a, b, 0)
        c1 == Column(a, b, 1) + c0 \div 256
        c2 == Column(a, b, 2) + c1 \div 256
        c3 == Column(a, b, 3) + c2 \div 256
        c4 == Column(a, b, 4) + c3 \div 256
        c5 == Column(a, b, 5) + c4 \div 256
        c6 == Column(a, b, 6) + c5 \div 256
        c7 == c6 \div 256
    IN  BitsOf(c0 % 256, 8) \o BitsOf(c1 % 256, 8) \o BitsOf(c2 % 256, 8)
        \o BitsOf(c3 % 256, 8) \o BitsOf(c4 % 256, 8) \o BitsOf(c5 % 256, 8)
        \o BitsOf(c6 % 256, 8) \o BitsOf(c7 % 256, 8)

\* a < b as unsigned numbers of 32 bits
Less(a, b) ==
    \/ Half(a, 2) < Half(b, 2)
    \/ Half(a, 2) = Half(b, 2) /\ Half(a, 0) < Half(b, 0)

\* FastRand::fastrand
fastrand(rng) ==
    LET s1a == Xor(rng.one, Shl(rng.one, 17))
        s0  == rng.two
        s1  == Xor(Xor(Xor(s1a, s0), Shr(s1a, 7)), Shr(s0, 16))
    IN  [rng |-> [one |-> s0, two |-> s1], out |-> WrappingAdd(s0, s1)]

\* variant: the low word of the product, (mul as u32)
reduce_low(draw, n) == TruncU32(WrappingMul(draw, n))

\* fastrand_n, the reduction: ((draw as u64).wrapping_mul(n as u64) >> 32)
\* as u32
reduce(draw, n) == ShiftRight32AsU32(WrappingMul(draw, n))

\* FastRand::fastrand_n
fastrand_n(rng, n) ==
    LET r == fastrand(rng)
    IN  [rng |-> r.rng, out |-> reduce(r.out, n)]

\* RngSeed::new() hashes a counter with the process' RandomState: the result
\* is some u64, drawn here from EntropyInputs.
EntropyInputs == { U64(5, 0) }
FastRand_new(entropy) == from_seed(from_u64(entropy))

\* util/rand/rt.rs: swaps in the new seed, returns the previous full state
replace_seed(rng, seed) ==
    [ rng      |-> [one |-> seed.s, two |-> seed.r],
      old_seed |-> from_pair(rng.one, rng.two) ]

\* util/rand/rt.rs: the seeds a handle's RngSeedGenerator can hand out
SeedInputs == { from_pair(U32(1), U32(2)), from_pair(U32(3), U32(4)) }

\* ------------------------------------------------- runtime/context/runtime.rs
NotEntered == <<"NotEntered">>
Entered(allow_block_in_place) == <<"Entered", allow_block_in_place>>
\* variant: the entered flag is never seen as set
is_entered_never(rt) == FALSE
is_entered(rt) == rt[1] = "Entered"

REENTRANT_MSG == "Cannot start a runtime from within a runtime."
DEPTH_MSG == "reached max enter depth"
CONTEXT_MISSING_ERROR == "there is no reactor running, must be called from the context of a Mini runtime"
THREAD_LOCAL_DESTROYED_ERROR == "The Tokio context thread-local variable has been destroyed."
CLOSURE_PANIC == "closure panicked"
NoPanic == "none"

\* usize::MAX, in a word of UsizeBits bits
USIZE_MAX == 2^UsizeBits - 1

VARIABLES
    CONTEXT,        \* per thread: [current |-> [handle, depth], runtime, rng]
    destroyed,      \* per thread: the CONTEXT thread-local has been torn down
    seed_generator, \* per handle: number of seeds drawn from its generator
    stack,          \* per thread: live enter_runtime closures / SetCurrentGuards
    panicking,      \* per thread: message of the panic being unwound, or NoPanic
    calls,          \* per thread: finished enter_runtime calls, in order
    lastOp,         \* per thread: the last finished context operation
    pc,             \* per thread: position inside spawn / Id::next
    local_id,       \* per thread: the id obtained by the running call
    NEXT_ID,        \* runtime/task/id.rs: the process-wide counter
    spawned,        \* tasks handed to a scheduler handle: [handle, id, thread]
    spawn_calls,    \* number of spawn calls started
    issued          \* ids returned by Id::next: [thread, id]

\* util/atomic_cell.rs
VARIABLES
    cell,           \* the AtomicCell: [state, data], data a raw pointer
    cell_call,      \* per thread: the running or last call on the cell
    cell_log,       \* the atomic exchanges on the cell, in their total order
    allocated,      \* number of Box<T> allocated so far (boxes 1..allocated)
    returned,       \* per box: times it was handed back to a caller
    dropped         \* per box: times it was dropped (freed)

rtVars == <<CONTEXT, destroyed, seed_generator, stack, panicking, calls, lastOp,
            pc, local_id, NEXT_ID, spawned, spawn_calls, issued>>

cellVars == <<cell, cell_call, cell_log, allocated, returned, dropped>>

\* util/wake.rs
VARIABLES
    strong,             \* strong count of the Arc<W> allocation
    base,               \* the strong count when waker_ref was called
    wakers,             \* slot 0: the WakerRef; slots 1..: the cloned Wakers
    wake_calls,         \* invocations of Wake::wake
    wake_by_ref_calls,  \* invocations of Wake::wake_by_ref
    by_ref_on,          \* the handles wake_by_ref was called on
    drop_calls          \* invocations of drop_arc_raw

wakeVars == <<strong, base, wakers, wake_calls, wake_by_ref_calls, by_ref_on,
              drop_calls>>

\* runtime/runtime.rs
VARIABLES
    block_on_calls,     \* the calls of Runtime::block_on: [thread, rt]
    loop_pc             \* per thread: position in the loop of block_on

\* runtime/thread_id.rs
VARIABLES
    TID_NEXT_ID,    \* ThreadId::next: the static NEXT_ID
    tid_pc,         \* per thread: position in ThreadId::next
    tid_last,       \* per thread: the local last
    tid_issued,     \* the ids returned: [thread, id]
    tid_panicked    \* the threads whose call panicked

tidVars == <<TID_NEXT_ID, tid_pc, tid_last, tid_issued, tid_panicked>>

\* tls/scope/src/scoped.rs, one thread's Scoped<T>
VARIABLES
    scoped_inner,      \* Scoped::inner, the Cell<*const T>
    scoped_frames,     \* the set calls in progress, outermost first: the
                       \* Reset guard's prev, t, and the pointer the cell
                       \* held when set was called
    scoped_unwinding,  \* a panic of a closure is propagating
    scoped_exit,       \* the last set call that exited
    scoped_seen        \* what the last with call passed to its closure

scopedVars == <<scoped_inner, scoped_frames, scoped_unwinding, scoped_exit,
                scoped_seen>>

\* tls/tls-rust/src/service_v2.rs
VARIABLES
    LOGIN_CONTEXT,     \* per thread: the thread-local RefCell<Option<String>>
    responses          \* per thread: the requests handled and their status

serviceVars == <<LOGIN_CONTEXT, responses>>

\* the runtime, the cell and the waker bridge
coreVars == <<rtVars, cellVars, wakeVars, block_on_calls, loop_pc>>

\* the components that share nothing with them
libVars == <<randVars, tidVars, scopedVars, serviceVars>>

\* what the steps of one of these components leave unchanged
exceptRand == <<coreVars, tidVars, scopedVars, serviceVars>>
exceptScoped == <<coreVars, randVars, tidVars, serviceVars>>

vars == <<coreVars, libVars>>

\* variant: CONTEXT is a plain static, one instance for all threads
LocalKey_static(t) == MainThread

\* runtime/context.rs: thread_local! { static CONTEXT }: CONTEXT.with and
\* CONTEXT.try_with reach the instance of the calling thread
LocalKey(t) == t

\* runtime/context.rs: the const initialiser of the thread-local
Context_new ==
    [ current |-> [handle |-> None, depth |-> 0],
      runtime |-> NotEntered,
      rng     |-> None ]

\* util/atomic_cell.rs: ptr::null_mut()
NULL == 0

\* the threads sharing one AtomicCell by reference
CellThreads == {1, 2, 3}

\* the heap allocations Box<T> handed to the cell, by address
Boxes == 1..(MaxCellOps + 1)

NoCall == [op |-> "none", pc |-> "idle", val |-> None, old |-> NULL,
           ret |-> None]

\* the Wakers cloned from the WakerRef, and these with the WakerRef (0)
Clones == 1..MaxClones
Handles0 == 0..MaxClones

\* the FastRand instances built independently of each other
RandInstances == {1, 2}

NoOp == [op |-> "none", pre |-> None, h |-> None, ret |-> <<>>,
         fcalls |-> 0, farg |-> None]

Init ==
    /\ CONTEXT = [t \in Threads |-> Context_new]
    /\ destroyed = [t \in Threads |-> FALSE]
    /\ seed_generator = [h \in Handles |-> 0]
    /\ stack = [t \in Threads |-> <<>>]
    /\ panicking = [t \in Threads |-> NoPanic]
    /\ calls = [t \in Threads |-> <<>>]
    /\ lastOp = [t \in Threads |-> NoOp]
    /\ pc = [t \in Threads |-> "idle"]
    /\ local_id = [t \in Threads |-> 0]
    /\ NEXT_ID = 1
    /\ spawned = <<>>
    /\ spawn_calls = 0
    /\ issued = <<>>
    /\ cell = [state |-> "none", data |-> NULL]
    /\ cell_call = [t \in CellThreads |-> NoCall]
    /\ cell_log = <<>>
    /\ allocated = 0
    /\ returned = [b \in Boxes |-> 0]
    /\ dropped = [b \in Boxes |-> 0]
    /\ strong = 1
    /\ base = 0
    /\ wakers = [i \in Handles0 |-> "none"]
    /\ wake_calls = 0
    /\ wake_by_ref_calls = 0
    /\ by_ref_on = {}
    /\ drop_calls = 0
    /\ block_on_calls = <<>>
    /\ loop_pc = [t \in Threads |-> "println"]
    /\ COUNTER = 1
    /\ new_seed = None
    /\ rand_seed = None
    /\ rngs = [i \in RandInstances |-> None]
    /\ script = <<>>
    /\ outs = [i \in RandInstances |-> <<>>]
    /\ TID_NEXT_ID = 0
    /\ tid_pc = [t \in Threads |-> "idle"]
    /\ tid_last = [t \in Threads |-> 0]
    /\ tid_issued = <<>>
    /\ tid_panicked = {}
    /\ scoped_inner = NULL
    /\ scoped_frames = <<>>
    /\ scoped_unwinding = FALSE
    /\ scoped_exit = [how |-> "none", t |-> NULL, held |-> NULL, now |-> NULL]
    /\ scoped_seen = <<"none">>
    /\ LOGIN_CONTEXT = [t \in Threads |-> None]
    /\ responses = [t \in Threads |-> <<>>]

\* ------------------------------------------------ runtime/context/current.rs
\* variant: the depth is bumped but the handle is not installed
set_current_no_install(c, handle) ==
    IF c.current.depth = USIZE_MAX
    THEN [ctx |-> c, panic |-> TRUE, guard |-> None]
    ELSE [ctx   |-> [c EXCEPT !.current.depth = @ + 1],
          panic |-> FALSE,
          guard |-> Some([prev |-> c.current.handle,
                          depth |-> c.current.depth + 1])]

\* variant: the depth wraps instead of the call failing
set_current_wrapping(c, handle) ==
    LET old_handle == c.current.handle
        c1 == [c EXCEPT !.current.handle = Some(handle)]
        depth == (c1.current.depth + 1) % (USIZE_MAX + 1)
    IN  [ctx   |-> [c1 EXCEPT !.current.depth = depth],
         panic |-> FALSE,
         guard |-> Some([prev |-> old_handle, depth |-> depth])]

\* Context::set_current: replaces the handle, then checks and bumps the depth
set_current(c, handle) ==
    LET old_handle == c.current.handle
        c1 == [c EXCEPT !.current.handle = Some(handle)]
        depth == c1.current.depth
    IN  IF depth = USIZE_MAX
        THEN [ctx |-> c1, panic |-> TRUE, guard |-> None]
        ELSE [ctx   |-> [c1 EXCEPT !.current.depth = depth + 1],
              panic |-> FALSE,
              guard |-> Some([prev |-> old_handle, depth |-> depth + 1])]

\* SetCurrentGuard has no Drop impl: releasing it drops its fields only
drop_SetCurrentGuard(c, guard) == c

Ok(v) == <<"Ok", v>>
Err(kind) == <<"Err", kind>>

\* variant: the two error arms of the match are swapped
with_current_swapped(c, dead) ==
    IF dead
    THEN [ret |-> Err("NoContext"), fcalls |-> 0, farg |-> None]
    ELSE IF is_some(c.current.handle)
         THEN [ret |-> Ok(unwrap(c.current.handle)), fcalls |-> 1,
               farg |-> c.current.handle]
         ELSE [ret |-> Err("ThreadLocalDestroyed"), fcalls |-> 0,
               farg |-> None]

\* variant: try_with's access error is not told apart from a missing handle
with_current_no_access_error(c, dead) ==
    IF ~dead /\ is_some(c.current.handle)
    THEN [ret |-> Ok(unwrap(c.current.handle)), fcalls |-> 1,
          farg |-> c.current.handle]
    ELSE [ret |-> Err("NoContext"), fcalls |-> 0, farg |-> None]

\* with_current(f): f is applied to the handle when there is one
with_current(c, dead) ==
    IF dead
    THEN [ret |-> Err("ThreadLocalDestroyed"), fcalls |-> 0, farg |-> None]
    ELSE IF is_some(c.current.handle)
         THEN [ret |-> Ok(unwrap(c.current.handle)), fcalls |-> 1,
               farg |-> c.current.handle]
         ELSE [ret |-> Err("NoContext"), fcalls |-> 0, farg |-> None]

\* Display for TryCurrentError (runtime/handle.rs)
ErrorMessage(kind) ==
    IF kind = "NoContext" THEN CONTEXT_MISSING_ERROR
    ELSE THREAD_LOCAL_DESTROYED_ERROR

\* ------------------------------------------------ runtime/context/runtime.rs
\* variant: the seed is drawn and the flag rewritten before the entered check
enter_runtime_with_eager(c, handle, allow_block_in_place, rng_seed, entropy) ==
    IF is_entered(c.runtime)
    THEN [ctx |-> [c EXCEPT !.runtime = Entered(allow_block_in_place)],
          maybe_guard |-> None, panic |-> NoPanic, drew |-> TRUE]
    ELSE LET c1 == [c EXCEPT !.runtime = Entered(allow_block_in_place)]
             rng == IF is_some(c1.rng) THEN unwrap(c1.rng)
                    ELSE FastRand_new(entropy)
             rep == replace_seed(rng, rng_seed)
             c2 == [c1 EXCEPT !.rng = Some(rep.rng)]
             sc == set_current(c2, handle)
         IN  IF sc.panic
             THEN [ctx |-> sc.ctx, maybe_guard |-> None, panic |-> DEPTH_MSG,
                   drew |-> TRUE]
             ELSE [ctx |-> sc.ctx,
                   maybe_guard |-> Some([blocking |-> "BlockingRegionGuard",
                                         handle   |-> unwrap(sc.guard),
                                         old_seed |-> rep.old_seed]),
                   panic |-> NoPanic, drew |-> TRUE]

\* The closure enter_runtime runs on CONTEXT: None when already entered,
\* else flag, seed swap and set_current, in that order.
enter_runtime_with(c, handle, allow_block_in_place, rng_seed, entropy) ==
    IF is_entered(c.runtime)
    THEN [ctx |-> c, maybe_guard |-> None, panic |-> NoPanic, drew |-> FALSE]
    ELSE LET c1 == [c EXCEPT !.runtime = Entered(allow_block_in_place)]
             rng == IF is_some(c1.rng) THEN unwrap(c1.rng)
                    ELSE FastRand_new(entropy)
             rep == replace_seed(rng, rng_seed)
             c2 == [c1 EXCEPT !.rng = Some(rep.rng)]
             sc == set_current(c2, handle)
         IN  IF sc.panic
             THEN [ctx |-> sc.ctx, maybe_guard |-> None, panic |-> DEPTH_MSG,
                   drew |-> TRUE]
             ELSE [ctx |-> sc.ctx,
                   maybe_guard |-> Some([blocking |-> "BlockingRegionGuard",
                                         handle   |-> unwrap(sc.guard),
                                         old_seed |-> rep.old_seed]),
                   panic |-> NoPanic, drew |-> TRUE]

\* EnterRuntimeGuard has no Drop impl: releasing it drops its fields only
drop_EnterRuntimeGuard(c, guard) == drop_SetCurrentGuard(c, guard.handle)

\* ---------------------------------------------------------- call stack
Top(t) == stack[t][Len(stack[t])]
Pop(s) == SubSeq(s, 1, Len(s) - 1)
IsCallFrame(f) == f.kind # "set_current"
LiveCalls(t) == Cardinality({i \in 1..Len(stack[t]) : IsCallFrame(stack[t][i])})
InClosure(t) == LiveCalls(t) > 0
\* block_on's closure is `loop { println!(..) }`: the thread never leaves it
Stuck(t) == Len(stack[t]) > 0 /\ Top(t).kind = "block_on"
Ready(t) == pc[t] = "idle" /\ panicking[t] = NoPanic /\ ~Stuck(t)

Op(op, pre, h, ret, fcalls, farg) ==
    [op |-> op, pre |-> pre, h |-> h, ret |-> ret, fcalls |-> fcalls,
     farg |-> farg]

\* the record of a finished enter_runtime call
Finished(frame, outcome, ran, post) ==
    [nested |-> frame.nested, seed |-> frame.seed, outcome |-> outcome,
     ran |-> ran, rng_after |-> post.rng]

\* enter_runtime(handle, allow_block_in_place, f) up to the call of f, or to
\* its panic.  kind tells whether f is a caller's closure or block_on's loop.
EnterRuntime(t, handle, allow_block_in_place, kind) ==
    /\ Ready(t)
    /\ ~destroyed[t]
    /\ Len(calls[t]) + LiveCalls(t) < MaxCalls
    /\ \E rng_seed \in SeedInputs, entropy \in EntropyInputs :
         LET r == enter_runtime_with(CONTEXT[LocalKey(t)], handle, allow_block_in_place,
                                     rng_seed, entropy)
             frame == [kind |-> kind, guard |-> r.maybe_guard, h |-> handle,
                       allow |-> allow_block_in_place,
                       nested |-> InClosure(t),
                       seed |-> IF r.drew THEN Some(rng_seed) ELSE None,
                       pre |-> CONTEXT[LocalKey(t)]]
         IN  /\ CONTEXT' = [CONTEXT EXCEPT ![LocalKey(t)] = r.ctx]
             /\ seed_generator' =
                  IF r.drew
                  THEN [seed_generator EXCEPT ![handle] = @ + 1]
                  ELSE seed_generator
             /\ IF is_some(r.maybe_guard)
                THEN /\ Len(stack[t]) < MaxStack
                     /\ stack' = [stack EXCEPT ![t] = Append(@, frame)]
                     /\ UNCHANGED <<panicking, calls>>
                     /\ lastOp' = [lastOp EXCEPT ![t] =
                          Op("enter", Some(CONTEXT[LocalKey(t)]), Some(handle), <<>>, 1, None)]
                ELSE /\ panicking' = [panicking EXCEPT ![t] =
                          IF r.panic = NoPanic THEN REENTRANT_MSG ELSE r.panic]
                     /\ calls' = [calls EXCEPT ![t] =
                          Append(@, Finished(frame,
                                 IF r.panic = NoPanic THEN "aborted"
                                 ELSE "depth_panic", FALSE, r.ctx))]
                     /\ UNCHANGED stack
                     /\ lastOp' = [lastOp EXCEPT ![t] =
                          Op("enter_abort", Some(CONTEXT[LocalKey(t)]), Some(handle), <<>>,
                             0, None)]
    /\ UNCHANGED cellVars
    /\ UNCHANGED wakeVars
    /\ UNCHANGED libVars
    /\ UNCHANGED <<destroyed, pc, local_id, NEXT_ID, spawned, spawn_calls, issued>>

\* context::enter_runtime called directly with a closure that returns
Enter(t) ==
    /\ \E handle \in Handles, allow \in BOOLEAN :
        EnterRuntime(t, handle, allow, "enter_runtime")
    /\ UNCHANGED <<block_on_calls, loop_pc>>

\* runtime/runtime.rs: a Runtime owns its scheduler and the handle to it
Runtimes == Handles

\* variant: the handle of another runtime is passed on
Runtime_handle_other(rt) == (rt % NumHandles) + 1

\* Runtime::block_on_inner: &self.handle.inner
Runtime_handle(rt) == rt

\* Runtime::block_on -> block_on_inner -> CurrentThread::block_on:
\* enter_runtime(handle, false, |_blocking| loop { println!(..) })
BlockOn(t) ==
    \E rt \in Runtimes :
        /\ EnterRuntime(t, Runtime_handle(rt), FALSE, "block_on")
        /\ block_on_calls' = Append(block_on_calls, [thread |-> t, rt |-> rt])
        /\ UNCHANGED loop_pc

\* CurrentThread::block_on, the closure: println!("starting...") in the loop
BlockOnPrint(t) ==
    /\ Stuck(t)
    /\ pc[t] = "idle"
    /\ panicking[t] = NoPanic
    /\ loop_pc[t] = "println"
    /\ loop_pc' = [loop_pc EXCEPT ![t] = "again"]
    /\ UNCHANGED <<libVars, rtVars, cellVars, wakeVars, block_on_calls>>

\* CurrentThread::block_on, the closure: the end of the loop body, back to
\* its head
BlockOnAgain(t) ==
    /\ Stuck(t)
    /\ pc[t] = "idle"
    /\ panicking[t] = NoPanic
    /\ loop_pc[t] = "again"
    /\ loop_pc' = [loop_pc EXCEPT ![t] = "println"]
    /\ UNCHANGED <<libVars, rtVars, cellVars, wakeVars, block_on_calls>>

\* f returns: enter_runtime returns f's value and the guard goes out of scope
ClosureReturn(t) ==
    /\ Ready(t)
    /\ Len(stack[t]) > 0
    /\ Top(t).kind = "enter_runtime"
    /\ LET c == drop_EnterRuntimeGuard(CONTEXT[LocalKey(t)], unwrap(Top(t).guard))
       IN  /\ CONTEXT' = [CONTEXT EXCEPT ![LocalKey(t)] = c]
           /\ calls' = [calls EXCEPT ![t] =
                Append(@, Finished(Top(t), "returned", TRUE, c))]
           /\ lastOp' = [lastOp EXCEPT ![t] =
                Op("exit", Some(Top(t).pre), Some(Top(t).h),
                   <<unwrap(Top(t).guard).old_seed>>, 0, None)]
    /\ stack' = [stack EXCEPT ![t] = Pop(@)]
    /\ UNCHANGED cellVars
    /\ UNCHANGED wakeVars
    /\ UNCHANGED libVars
    /\ UNCHANGED <<block_on_calls, loop_pc>>
    /\ UNCHANGED <<destroyed, seed_generator, panicking, pc, local_id, NEXT_ID,
                   spawned, spawn_calls, issued>>

\* f panics
ClosurePanic(t) ==
    /\ Ready(t)
    /\ Len(stack[t]) > 0
    /\ Top(t).kind = "enter_runtime"
    /\ panicking' = [panicking EXCEPT ![t] = CLOSURE_PANIC]
    /\ lastOp' = [lastOp EXCEPT ![t] = NoOp]
    /\ UNCHANGED cellVars
    /\ UNCHANGED wakeVars
    /\ UNCHANGED libVars
    /\ UNCHANGED <<block_on_calls, loop_pc>>
    /\ UNCHANGED <<CONTEXT, destroyed, seed_generator, stack, calls,
                   pc, local_id, NEXT_ID, spawned, spawn_calls, issued>>

\* A panic leaves the innermost scope: its guard goes out of scope
Unwind(t) ==
    /\ panicking[t] # NoPanic
    /\ pc[t] = "idle"
    /\ Len(stack[t]) > 0
    /\ LET top == Top(t)
           c == IF IsCallFrame(top)
                THEN drop_EnterRuntimeGuard(CONTEXT[LocalKey(t)], unwrap(top.guard))
                ELSE drop_SetCurrentGuard(CONTEXT[LocalKey(t)], unwrap(top.guard))
       IN  /\ CONTEXT' = [CONTEXT EXCEPT ![LocalKey(t)] = c]
           /\ calls' = IF IsCallFrame(top)
                       THEN [calls EXCEPT ![t] =
                               Append(@, Finished(top, "unwound", TRUE, c))]
                       ELSE calls
           /\ lastOp' = [lastOp EXCEPT ![t] =
                IF IsCallFrame(top)
                THEN Op("exit_unwind", Some(top.pre), Some(top.h),
                        <<unwrap(top.guard).old_seed>>, 0, None)
                ELSE Op("drop_guard", Some(top.pre), Some(top.h), <<>>, 0,
                        None)]
    /\ stack' = [stack EXCEPT ![t] = Pop(@)]
    /\ UNCHANGED cellVars
    /\ UNCHANGED wakeVars
    /\ UNCHANGED libVars
    /\ UNCHANGED <<block_on_calls, loop_pc>>
    /\ UNCHANGED <<destroyed, seed_generator, panicking, pc, local_id, NEXT_ID,
                   spawned, spawn_calls, issued>>

\* catch_unwind (or a test harness) stops the panic
Catch(t) ==
    /\ panicking[t] # NoPanic
    /\ pc[t] = "idle"
    /\ panicking' = [panicking EXCEPT ![t] = NoPanic]
    /\ lastOp' = [lastOp EXCEPT ![t] = NoOp]
    /\ UNCHANGED cellVars
    /\ UNCHANGED wakeVars
    /\ UNCHANGED libVars
    /\ UNCHANGED <<block_on_calls, loop_pc>>
    /\ UNCHANGED <<CONTEXT, destroyed, seed_generator, stack, calls,
                   pc, local_id, NEXT_ID, spawned, spawn_calls, issued>>

\* Context::set_current called on its own.  The method is private to the
\* context module, so code inside an enter_runtime closure does not reach it.
SetCurrent(t) ==
    /\ Ready(t)
    /\ ~destroyed[t]
    /\ ~InClosure(t)
    /\ \E handle \in Handles :
         LET r == set_current(CONTEXT[LocalKey(t)], handle)
             frame == [kind |-> "set_current", guard |-> r.guard, h |-> handle,
                       allow |-> FALSE, nested |-> FALSE, seed |-> None,
                       pre |-> CONTEXT[LocalKey(t)]]
         IN  /\ CONTEXT' = [CONTEXT EXCEPT ![LocalKey(t)] = r.ctx]
             /\ IF r.panic
                THEN /\ panicking' = [panicking EXCEPT ![t] = DEPTH_MSG]
                     /\ UNCHANGED stack
                     /\ lastOp' = [lastOp EXCEPT ![t] =
                          Op("set_current_panic", Some(CONTEXT[LocalKey(t)]),
                             Some(handle), <<>>, 0, None)]
                ELSE /\ Len(stack[t]) < MaxStack
                     /\ stack' = [stack EXCEPT ![t] = Append(@, frame)]
                     /\ UNCHANGED panicking
                     /\ lastOp' = [lastOp EXCEPT ![t] =
                          Op("set_current", Some(CONTEXT[LocalKey(t)]), Some(handle),
                             <<>>, 0, None)]
    /\ UNCHANGED cellVars
    /\ UNCHANGED wakeVars
    /\ UNCHANGED libVars
    /\ UNCHANGED <<block_on_calls, loop_pc>>
    /\ UNCHANGED <<destroyed, seed_generator, calls, pc, local_id, NEXT_ID,
                   spawned, spawn_calls, issued>>

\* The innermost SetCurrentGuard goes out of scope
DropGuard(t) ==
    /\ Ready(t)
    /\ Len(stack[t]) > 0
    /\ Top(t).kind = "set_current"
    /\ CONTEXT' = [CONTEXT EXCEPT ![LocalKey(t)] =
         drop_SetCurrentGuard(CONTEXT[LocalKey(t)], unwrap(Top(t).guard))]
    /\ lastOp' = [lastOp EXCEPT ![t] =
         Op("drop_guard", Some(Top(t).pre), Some(Top(t).h), <<>>, 0, None)]
    /\ stack' = [stack EXCEPT ![t] = Pop(@)]
    /\ UNCHANGED cellVars
    /\ UNCHANGED wakeVars
    /\ UNCHANGED libVars
    /\ UNCHANGED <<block_on_calls, loop_pc>>
    /\ UNCHANGED <<destroyed, seed_generator, panicking, calls, pc, local_id,
                   NEXT_ID, spawned, spawn_calls, issued>>

\* context::with_current(f), f returning the handle it is given
WithCurrent(t) ==
    /\ Ready(t)
    /\ LET r == with_current(CONTEXT[LocalKey(t)], destroyed[t])
       IN  lastOp' = [lastOp EXCEPT ![t] =
             Op("with_current", None, None, r.ret, r.fcalls, r.farg)]
    /\ UNCHANGED cellVars
    /\ UNCHANGED wakeVars
    /\ UNCHANGED libVars
    /\ UNCHANGED <<block_on_calls, loop_pc>>
    /\ UNCHANGED <<CONTEXT, destroyed, seed_generator, stack, panicking, calls,
                   pc, local_id, NEXT_ID, spawned, spawn_calls, issued>>

\* The thread ends: its thread-locals are destroyed
Teardown(t) ==
    /\ Ready(t)
    /\ Len(stack[t]) = 0
    /\ ~destroyed[t]
    /\ destroyed' = [destroyed EXCEPT ![t] = TRUE]
    /\ lastOp' = [lastOp EXCEPT ![t] = NoOp]
    /\ UNCHANGED cellVars
    /\ UNCHANGED wakeVars
    /\ UNCHANGED libVars
    /\ UNCHANGED <<block_on_calls, loop_pc>>
    /\ UNCHANGED <<CONTEXT, seed_generator, stack, panicking, calls,
                   pc, local_id, NEXT_ID, spawned, spawn_calls, issued>>

\* ------------------------------------------------------ runtime/task/id.rs
\* variant: the counter counts down
fetch_sub(counter) ==
    [id |-> counter, counter |-> (counter + 2^IdBits - 1) % (2^IdBits)]

\* variant: a plain load, the counter is not advanced
fetch_add_load_only(counter) == [id |-> counter, counter |-> counter]

\* AtomicU64::fetch_add(1, Relaxed) on a counter of IdBits bits
fetch_add(counter) ==
    [id |-> counter, counter |-> (counter + 1) % (2^IdBits)]

NonZeroU64_new(id) == IF id = 0 THEN None ELSE Some(id)

InFlight(p) == Cardinality({t \in Threads : pc[t] = p})

\* One iteration of the loop of Id::next(), called on its own; at most
\* max calls are started
IdNextWithin(t, max) ==
    /\ \/ /\ pc[t] = "idle"
          /\ Len(issued) + InFlight("id_next") < max
       \/ pc[t] = "id_next"
    /\ LET r == fetch_add(NEXT_ID)
           id == NonZeroU64_new(r.id)
       IN  /\ NEXT_ID' = r.counter
           /\ IF is_some(id)
              THEN /\ issued' = Append(issued, [thread |-> t, id |-> unwrap(id)])
                   /\ pc' = [pc EXCEPT ![t] = "idle"]
              ELSE /\ pc' = [pc EXCEPT ![t] = "id_next"]
                   /\ UNCHANGED issued
    /\ UNCHANGED cellVars
    /\ UNCHANGED wakeVars
    /\ UNCHANGED libVars
    /\ UNCHANGED <<block_on_calls, loop_pc>>
    /\ UNCHANGED <<CONTEXT, destroyed, seed_generator, stack, panicking, calls,
                   lastOp, local_id, spawned, spawn_calls>>


\* ------------------------------------------------------------ task/spawn.rs
\* spawn, first statement: `let id = task::Id::next();`, one loop iteration
SpawnIdNext(t) ==
    /\ \/ /\ Ready(t)
          /\ spawn_calls < MaxSpawns
          /\ spawn_calls' = spawn_calls + 1
       \/ /\ pc[t] = "spawn_id"
          /\ UNCHANGED spawn_calls
    /\ LET r == fetch_add(NEXT_ID)
           id == NonZeroU64_new(r.id)
       IN  /\ NEXT_ID' = r.counter
           /\ IF is_some(id)
              THEN /\ pc' = [pc EXCEPT ![t] = "spawn_resolve"]
                   /\ local_id' = [local_id EXCEPT ![t] = unwrap(id)]
              ELSE /\ pc' = [pc EXCEPT ![t] = "spawn_id"]
                   /\ UNCHANGED local_id
    /\ lastOp' = [lastOp EXCEPT ![t] = NoOp]
    /\ UNCHANGED cellVars
    /\ UNCHANGED wakeVars
    /\ UNCHANGED libVars
    /\ UNCHANGED <<block_on_calls, loop_pc>>
    /\ UNCHANGED <<CONTEXT, destroyed, seed_generator, stack, panicking, calls,
                   spawned, issued>>

\* variant: the error arm hands out a JoinHandle instead of panicking
spawn_match_no_panic(ret) == [panic |-> NoPanic, ret |-> Some("JoinHandle")]

\* the match on with_current's result: a JoinHandle, or panic!("{}", e)
spawn_match(ret) ==
    IF ret[1] = "Ok"
    THEN [panic |-> NoPanic, ret |-> Some("JoinHandle")]
    ELSE [panic |-> ErrorMessage(ret[2]), ret |-> None]

\* spawn, second statement: with_current(|handle| handle.spawn(future, id))
SpawnResolve(t) ==
    /\ pc[t] = "spawn_resolve"
    /\ LET r == with_current(CONTEXT[LocalKey(t)], destroyed[t])
           m == spawn_match(r.ret)
       IN  /\ spawned' = IF r.fcalls = 1
                         THEN Append(spawned, [handle |-> unwrap(r.farg),
                                               id |-> local_id[t],
                                               thread |-> t])
                         ELSE spawned
           /\ panicking' = [panicking EXCEPT ![t] = m.panic]
           /\ lastOp' = [lastOp EXCEPT ![t] =
                Op("spawn", None, None, m.ret, r.fcalls, r.farg)]
    /\ pc' = [pc EXCEPT ![t] = "idle"]
    /\ local_id' = [local_id EXCEPT ![t] = 0]
    /\ UNCHANGED cellVars
    /\ UNCHANGED wakeVars
    /\ UNCHANGED libVars
    /\ UNCHANGED <<block_on_calls, loop_pc>>
    /\ UNCHANGED <<CONTEXT, destroyed, seed_generator, stack, calls, NEXT_ID,
                   spawn_calls, issued>>

\* ---------------------------------------------------------- specifications
\* The runtime as its callers drive it: the main thread enters runtimes
\* (enter_runtime, block_on) and runs their closures; every thread may look
\* up the current handle and spawn.
Next ==
    \/ \E t \in {MainThread} :
        \/ Enter(t)
        \/ BlockOn(t)
        \/ BlockOnPrint(t)
        \/ BlockOnAgain(t)
        \/ ClosureReturn(t)
        \/ ClosurePanic(t)
        \/ Unwind(t)
        \/ Teardown(t)
    \/ \E t \in Threads :
        \/ Catch(t)
        \/ WithCurrent(t)
        \/ SpawnIdNext(t)
        \/ SpawnResolve(t)

Spec == Init /\ [][Next]_vars

\* The steps of one thread in Next
ThreadNext(t) ==
    \/ /\ t = MainThread
       /\ \/ Enter(t)
          \/ BlockOn(t)
          \/ BlockOnPrint(t)
          \/ BlockOnAgain(t)
          \/ ClosureReturn(t)
          \/ ClosurePanic(t)
          \/ Unwind(t)
          \/ Teardown(t)
    \/ Catch(t)
    \/ WithCurrent(t)
    \/ SpawnIdNext(t)
    \/ SpawnResolve(t)

\* Spec with every thread scheduled again and again: a thread that can
\* take a step eventually takes one
SpecFair == Spec /\ \A t \in Threads : WF_vars(ThreadNext(t))

\* The handle cell driven directly: set_current and its guard around
\* enter_runtime and with_current.
NextCurrent ==
    \E t \in {MainThread} :
        \/ SetCurrent(t)
        \/ DropGuard(t)
        \/ Enter(t)
        \/ ClosureReturn(t)
        \/ WithCurrent(t)
        \/ Unwind(t)
        \/ Catch(t)

SpecCurrent == Init /\ [][NextCurrent]_vars

\* set_current and its guard on their own: installs, releases in scope
\* order, and the depth panic with its unwinding
NextDepth ==
    \E t \in {MainThread} :
        \/ SetCurrent(t)
        \/ DropGuard(t)
        \/ Unwind(t)
        \/ Catch(t)

SpecDepth == Init /\ [][NextDepth]_vars

\* Every thread on its own enters a runtime or installs a handle, once,
\* and leaves it again
NextThreads ==
    \E t \in Threads :
        \/ lastOp[t].op = "none" /\ Enter(t)
        \/ ClosureReturn(t)
        \/ lastOp[t].op = "none" /\ SetCurrent(t)
        \/ DropGuard(t)

SpecThreads == Init /\ [][NextThreads]_vars

\* Id::next() called concurrently from every thread, nothing else running
NextId == \E t \in Threads : IdNextWithin(t, MaxIdCalls)

SpecId == Init /\ [][NextId]_vars

\* Id::next() called concurrently for long enough to exhaust the counter:
\* after 2^IdBits + 1 calls the counter of IdBits bits has wrapped and one
\* more id has been handed out
NextIdWrap == \E t \in Threads : IdNextWithin(t, 2^IdBits + 1)

SpecIdWrap == Init /\ [][NextIdWrap]_vars

\* ------------------------------------------------------ util/atomic_cell.rs
\* to_raw: None becomes the null pointer, Some(box) the address of the box
\* (Box::into_raw)
to_raw(data) == IF is_some(data) THEN unwrap(data) ELSE NULL

\* from_raw: the null pointer becomes None, any other Some(Box::from_raw)
from_raw(val) == IF val = NULL THEN None ELSE Some(val)

\* variant: the slot is read and left as it is
AtomicPtr_load(data, new) == [old |-> data, data |-> data]

\* variant: the slot is overwritten and null is returned
AtomicPtr_store(data, new) == [old |-> NULL, data |-> new]

\* variant: the exchange returns the pointer just stored
AtomicPtr_swap_new(data, new) == [old |-> new, data |-> new]

\* AtomicPtr::swap(new, AcqRel): one atomic exchange
AtomicPtr_swap(data, new) == [old |-> data, data |-> new]

CellIdle(t) == cell_call[t].pc = "idle"

\* AtomicCell::new(data)
CellNew ==
    /\ cell.state = "none"
    /\ \E fresh \in BOOLEAN :
        LET data == IF fresh THEN Some(allocated + 1) ELSE None
        IN  /\ cell' = [state |-> "live", data |-> to_raw(data)]
            /\ allocated' = IF fresh THEN allocated + 1 ELSE allocated
            /\ cell_log' = Append(cell_log,
                    [thread |-> 0, op |-> "new", new |-> to_raw(data),
                     old |-> NULL])
    /\ UNCHANGED wakeVars
    /\ UNCHANGED libVars
    /\ UNCHANGED <<block_on_calls, loop_pc>>
    /\ UNCHANGED <<cell_call, returned, dropped>>
    /\ UNCHANGED rtVars

\* swap, first statement: self.data.swap(to_raw(val), AcqRel), called as
\* op (swap itself, or the body of set or take)
CellExchange(t, op, val) ==
    /\ cell.state = "live"
    /\ CellIdle(t)
    /\ LET r == AtomicPtr_swap(cell.data, to_raw(val))
       IN  /\ cell' = [cell EXCEPT !.data = r.data]
           /\ cell_call' = [cell_call EXCEPT ![t] =
                [op |-> op, pc |-> "swapped", val |-> val, old |-> r.old,
                 ret |-> None]]
           /\ cell_log' = Append(cell_log,
                [thread |-> t, op |-> op, new |-> to_raw(val), old |-> r.old])
    /\ allocated' = IF is_some(val) THEN allocated + 1 ELSE allocated
    /\ UNCHANGED wakeVars
    /\ UNCHANGED libVars
    /\ UNCHANGED <<block_on_calls, loop_pc>>
    /\ UNCHANGED <<returned, dropped>>
    /\ UNCHANGED rtVars

\* AtomicCell::swap(val) with a newly allocated box or with None
CellSwap(t) ==
    /\ Len(cell_log) <= MaxCellOps
    /\ \E val \in {None, Some(allocated + 1)} : CellExchange(t, "swap", val)

\* AtomicCell::set(val): swap(Some(val))
CellSet(t) ==
    /\ Len(cell_log) <= MaxCellOps
    /\ CellExchange(t, "set", Some(allocated + 1))

\* AtomicCell::take(): swap(None)
CellTake(t) ==
    /\ Len(cell_log) <= MaxCellOps
    /\ CellExchange(t, "take", None)

\* swap, second statement: from_raw(old); swap and take return the result
\* to the caller, set drops it (let _ = ...)
CellFromRaw(t) ==
    /\ cell_call[t].pc = "swapped"
    /\ LET ret == from_raw(cell_call[t].old)
       IN  /\ cell_call' = [cell_call EXCEPT ![t].pc = "idle", ![t].ret = ret]
           /\ IF is_some(ret)
              THEN IF cell_call[t].op = "set"
                   THEN /\ dropped' = [dropped EXCEPT ![unwrap(ret)] = @ + 1]
                        /\ UNCHANGED returned
                   ELSE /\ returned' = [returned EXCEPT ![unwrap(ret)] = @ + 1]
                        /\ UNCHANGED dropped
              ELSE UNCHANGED <<returned, dropped>>
    /\ UNCHANGED wakeVars
    /\ UNCHANGED libVars
    /\ UNCHANGED <<block_on_calls, loop_pc>>
    /\ UNCHANGED <<cell, cell_log, allocated>>
    /\ UNCHANGED rtVars

\* Drop for AtomicCell: let _ = self.take(); it takes &mut self, so no
\* other call on the cell is running
CellDrop ==
    /\ cell.state = "live"
    /\ \A t \in CellThreads : CellIdle(t)
    /\ LET r == AtomicPtr_swap(cell.data, to_raw(None))
           ret == from_raw(r.old)
       IN  /\ cell' = [state |-> "dropped", data |-> r.data]
           /\ cell_log' = Append(cell_log,
                [thread |-> 0, op |-> "drop", new |-> NULL, old |-> r.old])
           /\ dropped' = IF is_some(ret)
                         THEN [dropped EXCEPT ![unwrap(ret)] = @ + 1]
                         ELSE dropped
    /\ UNCHANGED wakeVars
    /\ UNCHANGED libVars
    /\ UNCHANGED <<block_on_calls, loop_pc>>
    /\ UNCHANGED <<cell_call, allocated, returned>>
    /\ UNCHANGED rtVars

\* One swap of a new value by a thread that has not used the cell yet
SwapOnce(t) ==
    /\ cell_call[t].op = "none"
    /\ CellExchange(t, "swap", Some(allocated + 1))

\* A cell shared by the threads: created, used through swap, set and
\* take, destroyed
NextCell ==
    \/ CellNew
    \/ CellDrop
    \/ \E t \in Threads :
        \/ CellSwap(t)
        \/ CellSet(t)
        \/ CellTake(t)
        \/ CellFromRaw(t)

SpecCell == Init /\ [][NextCell]_vars

\* A cell on which every thread performs one swap of a value of its own
NextSwap ==
    \/ CellNew
    \/ \E t \in CellThreads :
        \/ SwapOnce(t)
        \/ CellFromRaw(t)

SpecSwap == Init /\ [][NextSwap]_vars

\* ------------------------------------------------------------ util/wake.rs
\* variant: the WakerRef takes a count of its own (Arc::into_raw of a clone)
Arc_clone_into_raw(count) == count + 1

\* Arc::as_ptr in waker_ref: the count is not touched
Arc_as_ptr(count) == count

\* variant: the clone shares the pointer without taking a count
clone_arc_raw_shared(count) == count

\* clone_arc_raw: Arc::increment_strong_count
clone_arc_raw(count) == count + 1

\* drop_arc_raw: Arc::from_raw, then drop(arc)
drop_arc_raw(count) == count - 1

\* variant: the wrapper owns its Waker, whose drop runs drop_arc_raw
drop_WakerRef_owning(count) == drop_arc_raw(count)

\* dropping the WakerRef: its Waker is in a ManuallyDrop, nothing runs
drop_WakerRef(count) == count

\* Wake::wake(arc_self: Arc<Self>): takes the Arc by value and consumes it
Wake_wake(count) == count - 1

\* Wake::wake_by_ref(arc_self: &Arc<Self>): borrows the Arc
Wake_wake_by_ref(count) == count

\* variant: the Arc is woken by value and released once more afterwards
wake_arc_raw_and_drop(count) ==
    [count |-> drop_arc_raw(Wake_wake(count)), wake |-> 1, by_ref |-> 0]

\* wake_arc_raw: Arc::from_raw, then Wake::wake(arc)
wake_arc_raw(count) == [count |-> Wake_wake(count), wake |-> 1, by_ref |-> 0]

\* variant: the temporary Arc is not in a ManuallyDrop and is dropped
wake_by_ref_arc_raw_owning(count) ==
    [count |-> drop_arc_raw(Wake_wake_by_ref(count)), wake |-> 0,
     by_ref |-> 1]

\* wake_by_ref_arc_raw: ManuallyDrop::new(Arc::from_raw), then
\* Wake::wake_by_ref(&arc)
wake_by_ref_arc_raw(count) ==
    [count |-> Wake_wake_by_ref(count), wake |-> 0, by_ref |-> 1]

Live(i) == wakers[i] = "live"

\* the owner of the wakeable clones its Arc before lending it
ArcClone ==
    /\ wakers[0] = "none"
    /\ strong < MaxArcs
    /\ strong' = strong + 1
    /\ UNCHANGED <<base, wakers, wake_calls, wake_by_ref_calls, by_ref_on,
                   drop_calls>>
    /\ UNCHANGED <<libVars, rtVars, cellVars, block_on_calls, loop_pc>>

\* waker_ref(&arc)
WakerRefNew ==
    /\ wakers[0] = "none"
    /\ base' = strong
    /\ strong' = Arc_as_ptr(strong)
    /\ wakers' = [wakers EXCEPT ![0] = "live"]
    /\ UNCHANGED <<wake_calls, wake_by_ref_calls, by_ref_on, drop_calls>>
    /\ UNCHANGED <<libVars, rtVars, cellVars, block_on_calls, loop_pc>>

\* Waker::clone on the WakerRef (through Deref) or on a clone of it: the
\* clone entry of the vtable
WakerClone(src) ==
    /\ Live(src)
    /\ \E dst \in Clones :
        /\ wakers[dst] = "none"
        /\ \A j \in Clones : j < dst => wakers[j] # "none"
        /\ wakers' = [wakers EXCEPT ![dst] = "live"]
    /\ strong' = clone_arc_raw(strong)
    /\ UNCHANGED <<base, wake_calls, wake_by_ref_calls, by_ref_on, drop_calls>>
    /\ UNCHANGED <<libVars, rtVars, cellVars, block_on_calls, loop_pc>>

\* drop of a cloned Waker: the drop entry of the vtable
WakerDrop(i) ==
    /\ Live(i)
    /\ strong' = drop_arc_raw(strong)
    /\ drop_calls' = drop_calls + 1
    /\ wakers' = [wakers EXCEPT ![i] = "dropped"]
    /\ UNCHANGED <<base, wake_calls, wake_by_ref_calls, by_ref_on>>
    /\ UNCHANGED <<libVars, rtVars, cellVars, block_on_calls, loop_pc>>

\* drop of the WakerRef
WakerRefDrop ==
    /\ Live(0)
    /\ strong' = drop_WakerRef(strong)
    /\ wakers' = [wakers EXCEPT ![0] = "dropped"]
    /\ UNCHANGED <<base, wake_calls, wake_by_ref_calls, by_ref_on, drop_calls>>
    /\ UNCHANGED <<libVars, rtVars, cellVars, block_on_calls, loop_pc>>

\* Waker::wake(self) on a cloned Waker: the wake entry of the vtable; the
\* Waker is forgotten, its drop does not run
WakerWake(i) ==
    /\ Live(i)
    /\ LET r == wake_arc_raw(strong)
       IN  /\ strong' = r.count
           /\ wake_calls' = wake_calls + r.wake
           /\ wake_by_ref_calls' = wake_by_ref_calls + r.by_ref
    /\ wakers' = [wakers EXCEPT ![i] = "woken"]
    /\ UNCHANGED <<base, by_ref_on, drop_calls>>
    /\ UNCHANGED <<libVars, rtVars, cellVars, block_on_calls, loop_pc>>

\* Waker::wake_by_ref(&self) on the WakerRef or on a clone: the
\* wake_by_ref entry of the vtable
WakerWakeByRef(i) ==
    /\ Live(i)
    /\ wake_by_ref_calls < MaxWakeByRef
    /\ LET r == wake_by_ref_arc_raw(strong)
       IN  /\ strong' = r.count
           /\ wake_calls' = wake_calls + r.wake
           /\ wake_by_ref_calls' = wake_by_ref_calls + r.by_ref
    /\ by_ref_on' = by_ref_on \cup {i}
    /\ UNCHANGED <<base, wakers, drop_calls>>
    /\ UNCHANGED <<libVars, rtVars, cellVars, block_on_calls, loop_pc>>

\* One WakerRef borrowed from an Arc, the Wakers cloned from it, and what
\* their holders do with them
NextWake ==
    \/ ArcClone
    \/ WakerRefNew
    \/ WakerRefDrop
    \/ \E i \in Handles0 :
        \/ WakerClone(i)
        \/ WakerWakeByRef(i)
    \/ \E i \in Clones :
        \/ WakerDrop(i)
        \/ WakerWake(i)

SpecWake == Init /\ [][NextWake]_vars

\* ----------------------------------------------- util/rand.rs, FastRand
\* the seeds they are built from, and the arguments of fastrand_n
RandSeeds ==
    { from_pair(U32(1), U32(2)), from_pair(U32(2147483647), U32(2147483647)) }
RandNs == { U32(1), U32(3), U32(1000), AllOnes }

\* hasher.finish() in loon_rand::seed(): a u64 the caller cannot predict
HashOutputs ==
    { U64(0, 0), U64(5, 0), U64(0, 7), U64(2147483647, 1),
      U64(1, 2147483647), AllOnes \o AllOnes }

\* RngSeed::new(): loon_rand::seed() advances COUNTER and hashes it, the
\* seed is from_u64 of the hash
RngSeedNew ==
    /\ COUNTER < MaxEntropy
    /\ COUNTER' = COUNTER + 1
    /\ \E hash \in HashOutputs :
        new_seed' = Some([hash |-> hash, seed |-> from_u64(hash)])
    /\ UNCHANGED <<rand_seed, rngs, script, outs>>
    /\ UNCHANGED exceptRand

\* FastRand::from_seed(seed) for instance i, with the seed of the others
RandFromSeed(i) ==
    /\ rngs[i] = None
    /\ \E seed \in RandSeeds :
        /\ rand_seed \in {None, Some(seed)}
        /\ rand_seed' = Some(seed)
        /\ rngs' = [rngs EXCEPT ![i] = Some(from_seed(seed))]
    /\ UNCHANGED <<COUNTER, new_seed, script, outs>>
    /\ UNCHANGED exceptRand

\* instance i makes its next call: the one the script has at that place, or
\* a new one that is added to the script
RandCall(i, call) ==
    /\ is_some(rngs[i])
    /\ IF Len(outs[i]) < Len(script)
       THEN /\ call = script[Len(outs[i]) + 1]
            /\ UNCHANGED script
       ELSE /\ Len(script) < MaxDraws
            /\ script' = Append(script, call)
    /\ LET r == IF call[1] = "fastrand"
                THEN fastrand(unwrap(rngs[i]))
                ELSE fastrand_n(unwrap(rngs[i]), call[2])
       IN  /\ rngs' = [rngs EXCEPT ![i] = Some(r.rng)]
           /\ outs' = [outs EXCEPT ![i] = Append(@, r.out)]
    /\ UNCHANGED <<COUNTER, new_seed, rand_seed>>
    /\ UNCHANGED exceptRand

\* FastRand::fastrand
RandFastrand(i) == RandCall(i, <<"fastrand", U32(0)>>)

\* FastRand::fastrand_n(n)
RandFastrandN(i) == \E n \in RandNs : RandCall(i, <<"fastrand_n", n>>)

\* FastRand instances built from one seed and used side by side
NextRand ==
    \/ RngSeedNew
    \/ \E i \in RandInstances :
        \/ RandFromSeed(i)
        \/ RandFastrand(i)
        \/ RandFastrandN(i)

SpecRand == Init /\ [][NextRand]_vars

\* --------------------------------------------------- runtime/thread_id.rs
\* u64::MAX for a counter of TidBits bits
TID_MAX == 2^TidBits - 1

\* last.checked_add(1)
checked_add(last) == IF last = TID_MAX THEN None ELSE Some(last + 1)

\* variant: a plain store, the current value is not compared
atomic_store(current, last, id, spurious) == [ok |-> TRUE, value |-> id]

\* NEXT_ID.compare_exchange_weak(last, id, Relaxed, Relaxed): fails when the
\* current value is not last, and may fail spuriously; on failure it
\* returns the current value
compare_exchange_weak(current, last, id, spurious) ==
    IF current = last /\ ~spurious
    THEN [ok |-> TRUE, value |-> id]
    ELSE [ok |-> FALSE, value |-> current]

\* ThreadId::next, up to the loop: let mut last = NEXT_ID.load(Relaxed)
TidLoad(t) ==
    /\ tid_pc[t] = "idle"
    /\ tid_pc' = [tid_pc EXCEPT ![t] = "loop"]
    /\ tid_last' = [tid_last EXCEPT ![t] = TID_NEXT_ID]
    /\ UNCHANGED <<TID_NEXT_ID, tid_issued, tid_panicked>>
    /\ UNCHANGED <<coreVars, randVars, scopedVars, serviceVars>>

\* ThreadId::next, one iteration of the loop
TidLoop(t) ==
    /\ tid_pc[t] = "loop"
    /\ LET id == checked_add(tid_last[t])
       IN  IF id = None
           THEN /\ tid_panicked' = tid_panicked \cup {t}
                /\ tid_pc' = [tid_pc EXCEPT ![t] = "idle"]
                /\ tid_last' = [tid_last EXCEPT ![t] = 0]
                /\ UNCHANGED <<TID_NEXT_ID, tid_issued>>
           ELSE \E spurious \in BOOLEAN :
                LET r == compare_exchange_weak(TID_NEXT_ID, tid_last[t],
                                               unwrap(id), spurious)
                IN  IF r.ok
                    THEN /\ TID_NEXT_ID' = r.value
                         /\ tid_issued' = Append(tid_issued,
                                [thread |-> t, id |-> unwrap(id)])
                         /\ tid_pc' = [tid_pc EXCEPT ![t] = "idle"]
                         /\ tid_last' = [tid_last EXCEPT ![t] = 0]
                         /\ UNCHANGED tid_panicked
                    ELSE /\ tid_last' = [tid_last EXCEPT ![t] = r.value]
                         /\ UNCHANGED <<TID_NEXT_ID, tid_pc, tid_issued,
                                        tid_panicked>>
    /\ UNCHANGED <<coreVars, randVars, scopedVars, serviceVars>>

\* ThreadId::next() called concurrently from every thread
NextTid == \E t \in Threads : TidLoad(t) \/ TidLoop(t)

SpecTid == Init /\ [][NextTid]_vars

\* ------------------------------------------------- tls/scope/src/scoped.rs
\* t as *const _ for the values a caller may pass to set
ScopedPtrs == 1..NumScoped

\* variant: the guard clears the cell
Reset_drop_null(prev) == NULL

\* Drop for Reset: self.cell.set(self.prev)
Reset_drop(prev) == prev

\* Scoped::set up to the call of f
ScopedSet(t) ==
    /\ ~scoped_unwinding
    /\ Len(scoped_frames) < MaxScopes
    /\ LET prev_ptr == scoped_inner
       IN  /\ scoped_inner' = t
           /\ scoped_frames' = Append(scoped_frames,
                  [prev |-> prev_ptr, t |-> t, held |-> scoped_inner])
    /\ UNCHANGED <<scoped_unwinding, scoped_exit, scoped_seen>>
    /\ UNCHANGED exceptScoped

\* set exits and _reset is dropped
ScopedExit(how) ==
    LET top == scoped_frames[Len(scoped_frames)]
    IN  /\ scoped_inner' = Reset_drop(top.prev)
        /\ scoped_frames' = SubSeq(scoped_frames, 1, Len(scoped_frames) - 1)
        /\ scoped_exit' = [how |-> how, t |-> top.t, held |-> top.held,
                           now |-> scoped_inner']

\* f returns and set returns its value
ScopedReturn ==
    /\ ~scoped_unwinding
    /\ scoped_frames # <<>>
    /\ ScopedExit("returned")
    /\ UNCHANGED <<scoped_unwinding, scoped_seen>>
    /\ UNCHANGED exceptScoped

\* f panics
ScopedPanic ==
    /\ ~scoped_unwinding
    /\ scoped_frames # <<>>
    /\ scoped_unwinding' = TRUE
    /\ UNCHANGED <<scoped_inner, scoped_frames, scoped_exit, scoped_seen>>
    /\ UNCHANGED exceptScoped

\* the panic leaves a set call
ScopedUnwind ==
    /\ scoped_unwinding
    /\ scoped_frames # <<>>
    /\ ScopedExit("panicked")
    /\ UNCHANGED <<scoped_unwinding, scoped_seen>>
    /\ UNCHANGED exceptScoped

\* the panic is caught (catch_unwind) by a caller
ScopedCatch ==
    /\ scoped_unwinding
    /\ scoped_unwinding' = FALSE
    /\ UNCHANGED <<scoped_inner, scoped_frames, scoped_exit, scoped_seen>>
    /\ UNCHANGED exceptScoped

\* variant: the closure is always given None
with_unset(val_ptr) == <<"None">>

\* the argument Scoped::with passes to f: None for a null pointer, else
\* Some(&*val_ptr)
with_arg(val_ptr) ==
    IF val_ptr = NULL THEN <<"None">> ELSE <<"Some", val_ptr>>

\* Scoped::with
ScopedWith ==
    /\ ~scoped_unwinding
    /\ LET val_ptr == scoped_inner
       IN  scoped_seen' = with_arg(val_ptr)
    /\ UNCHANGED <<scoped_inner, scoped_frames, scoped_unwinding, scoped_exit>>
    /\ UNCHANGED exceptScoped

NextScoped ==
    \/ \E t \in ScopedPtrs : ScopedSet(t)
    \/ ScopedReturn
    \/ ScopedPanic
    \/ ScopedUnwind
    \/ ScopedCatch
    \/ ScopedWith

SpecScoped == Init /\ [][NextScoped]_vars

\* ------------------------------------------- tls/tls-rust/src/service_v2.rs
\* Request::new(username, password)
Request_new(username, password) ==
    [username |-> username, password |-> password]

\* the requests of main, and one of a user without credentials
Requests ==
    { Request_new("user1", "pass1"), Request_new("user2", "pass2"),
      Request_new("user1", "wrong_pass"), Request_new("user3", "pass1") }

credentials_look_up(username) ==
    IF username = "user1" THEN Some("pass1")
    ELSE IF username = "user2" THEN Some("pass2")
    ELSE None

\* LocalKey<RefCell<Option<T>>>::take: the value is returned and the cell
\* is left with the default, None
LocalKey_take(value) == [ret |-> value, cell |-> None]

\* Service::get on LOGIN_CONTEXT
Service_get(login, request) ==
    LET taken == LocalKey_take(login)
        expected_password == credentials_look_up(request.username)
    IN  IF is_some(taken.ret)
        THEN [status |-> "SuccessAlreadyLoggedIn", login |-> taken.cell]
        ELSE IF /\ is_some(expected_password)
                /\ unwrap(expected_password) = request.password
             THEN [status |-> "Success", login |-> Some(request.username)]
             ELSE [status |-> "AuthError", login |-> taken.cell]

\* RequestHandler::run on thread t handles its next request
ServiceGet(t) ==
    /\ Len(responses[t]) < MaxRequests
    /\ \E request \in Requests :
        LET r == Service_get(LOGIN_CONTEXT[LocalKey(t)], request)
        IN  /\ LOGIN_CONTEXT' = [LOGIN_CONTEXT EXCEPT ![LocalKey(t)] = r.login]
            /\ responses' = [responses EXCEPT ![t] =
                   Append(@, [request |-> request, status |-> r.status])]
    /\ UNCHANGED <<coreVars, randVars, tidVars, scopedVars>>

\* request handlers on their own threads
NextService == \E t \in Threads : ServiceGet(t)

SpecService == Init /\ [][NextService]_vars

\* ------------------------------------------------------------- properties
Pre(t) == unwrap(lastOp[t].pre)
EnterOps == {"enter", "enter_abort"}

\* C1: an enter_runtime call made while the thread's entered flag is set
\* does not run its closure (no closure frame is pushed) and panics with the
\* "Cannot start a runtime from within a runtime" message.
C1_ReentrantEntryAborts ==
    [][\A t \in Threads :
         ( /\ lastOp'[t] # lastOp[t]
           /\ lastOp'[t].op \in EnterOps
           /\ CONTEXT[t].runtime # NotEntered )
         => /\ stack'[t] = stack[t]
            /\ panicking'[t] = REENTRANT_MSG
            /\ lastOp'[t].op = "enter_abort"]_vars

\* a nested call, made from inside a running closure, has just aborted
C1_Witness ==
    /\ lastOp[MainThread].op = "enter_abort"
    /\ InClosure(MainThread)
    /\ panicking[MainThread] = REENTRANT_MSG

\* C2: once a non-nested enter_runtime call has returned on a thread, every
\* later non-nested enter_runtime call on that thread runs its closure
\* instead of aborting.
C2_FreshEntrySucceeds ==
    \A t \in Threads : \A i \in 1..Len(calls[t]) :
        ( /\ ~calls[t][i].nested
          /\ \E j \in 1..(i - 1) :
                ~calls[t][j].nested /\ calls[t][j].outcome = "returned" )
        => calls[t][i].ran

\* C3: right after enter_runtime has returned normally, the entered flag and
\* the current handle are what they were right before the call, and the
\* flag is NotEntered.
C3_ReturnRestores ==
    \A t \in Threads :
        lastOp[t].op = "exit"
        => /\ CONTEXT[t].runtime = Pre(t).runtime
           /\ CONTEXT[t].runtime = NotEntered
           /\ CONTEXT[t].current.handle = Pre(t).current.handle

\* C4: right after enter_runtime has been left by a panic of its closure,
\* the entered flag is NotEntered again, the current handle is the one from
\* before the call, and the thread's generator holds the state the seed swap
\* displaced.
C4_UnwindRestores ==
    \A t \in Threads :
        lastOp[t].op = "exit_unwind"
        => /\ CONTEXT[t].runtime = Pre(t).runtime
           /\ CONTEXT[t].runtime = NotEntered
           /\ CONTEXT[t].current.handle = Pre(t).current.handle
           /\ CONTEXT[t].rng = Some(from_seed(lastOp[t].ret[1]))

\* C5: the first two non-nested enter_runtime calls of a thread each swap in
\* a seed of the handle's generator, and the generator state after the second
\* call is the state left by the first.
C5_SeedRestorationExact ==
    \A t \in Threads :
        ( /\ Len(calls[t]) >= 2
          /\ ~calls[t][1].nested
          /\ ~calls[t][2].nested )
        => /\ is_some(calls[t][1].seed)
           /\ is_some(calls[t][2].seed)
           /\ calls[t][2].rng_after = calls[t][1].rng_after

\* C6: while the closure of enter_runtime(handle, ..) runs, with_current
\* resolves to that handle, and a spawn made there gets a JoinHandle and
\* does not panic.
C6_ClosureSeesHandle ==
    \A t \in Threads :
        InClosure(t)
        => /\ CONTEXT[t].current.handle = Some(Top(t).h)
           /\ lastOp[t].op = "with_current"
                => /\ lastOp[t].ret = Ok(Top(t).h)
                   /\ lastOp[t].farg = Some(Top(t).h)
           /\ lastOp[t].op = "spawn"
                => /\ lastOp[t].ret = Some("JoinHandle")
                   /\ panicking[t] = NoPanic

\* a spawn made inside the closure has returned its JoinHandle
C6_Witness ==
    /\ InClosure(MainThread)
    /\ lastOp[MainThread].op = "spawn"
    /\ lastOp[MainThread].ret = Some("JoinHandle")
    /\ \E i \in 1..Len(spawned) :
          /\ spawned[i].thread = MainThread
          /\ spawned[i].handle = Top(MainThread).h

\* C7: with_current on a live context without a handle returns NoContext and
\* does not call f; with a handle it calls f once, with that handle, and
\* returns Ok of f's result.
C7_WithCurrentResult ==
    \A t \in Threads :
        (lastOp[t].op = "with_current" /\ ~destroyed[t])
        => IF CONTEXT[t].current.handle = None
           THEN /\ lastOp[t].ret = Err("NoContext")
                /\ lastOp[t].fcalls = 0
           ELSE /\ lastOp[t].ret = Ok(CONTEXT[t].current.handle[1])
                /\ lastOp[t].fcalls = 1
                /\ lastOp[t].farg = CONTEXT[t].current.handle

\* one thread got NoContext while another got its handle
C7_Witness ==
    /\ lastOp[MainThread].op = "with_current"
    /\ lastOp[MainThread].ret[1] = "Ok"
    /\ \E t \in Threads \ {MainThread} :
          /\ lastOp[t].op = "with_current"
          /\ lastOp[t].ret = Err("NoContext")

\* C8: a spawn that reaches its handle lookup on a thread without a current
\* handle panics, returns no JoinHandle and hands nothing to a scheduler.
C8_SpawnWithoutHandlePanics ==
    [][\A t \in Threads :
         ( /\ pc[t] = "spawn_resolve"
           /\ pc'[t] = "idle"
           /\ \/ destroyed[t]
              \/ CONTEXT[t].current.handle = None )
         => /\ panicking'[t] # NoPanic
            /\ ~destroyed[t] => panicking'[t] = CONTEXT_MISSING_ERROR
            /\ lastOp'[t].ret = None
            /\ spawned' = spawned]_vars

\* a spawn outside any runtime has just panicked
C8_Witness ==
    \E t \in Threads :
        /\ lastOp[t].op = "spawn"
        /\ ~destroyed[t]
        /\ CONTEXT[t].current.handle = None
        /\ panicking[t] = CONTEXT_MISSING_ERROR

\* C9: right after a SetCurrentGuard is released (innermost first), the
\* current handle is the one that was active right before the matching
\* set_current.
C9_GuardReleaseRestores ==
    \A t \in Threads :
        lastOp[t].op = "drop_guard"
        => CONTEXT[t].current.handle = Pre(t).current.handle

\* C10: every id returned by Id::next() is greater than zero and no two
\* calls return the same id, whatever the interleaving.
C10_IdsUniqueNonZero ==
    \A i \in 1..Len(issued) :
        /\ issued[i].id > 0
        /\ \A j \in 1..Len(issued) : i # j => issued[i].id # issued[j].id

\* two threads obtained ids in alternation
C10_Witness ==
    \E i, j, k \in 1..Len(issued) :
        /\ i < j /\ j < k
        /\ issued[i].thread = issued[k].thread
        /\ issued[i].thread # issued[j].thread

\* C11: the ids one thread obtains from successive calls of Id::next() are
\* strictly increasing in the order the calls complete, whatever the other
\* threads do in between.
C11_PerThreadIncreasing ==
    \A i, j \in 1..Len(issued) :
        (i < j /\ issued[i].thread = issued[j].thread)
            => issued[i].id < issued[j].id

\* a thread completed two calls with a call of another thread in between
C11_Witness ==
    \E i, j, k \in 1..Len(issued) :
        /\ i < j /\ j < k
        /\ issued[i].thread = issued[k].thread
        /\ issued[j].thread # issued[i].thread
        /\ issued[i].id < issued[j].id
        /\ issued[j].id < issued[k].id

\* C12: when the counter wraps to zero, Id::next() fails fatally instead
\* of returning: a call that drew zero has panicked, and no id is handed
\* out twice.
C12_WrapFailsFatally ==
    /\ \A t \in Threads : pc[t] = "id_next" => panicking[t] # NoPanic
    /\ \A i, j \in 1..Len(issued) :
            i # j => issued[i].id # issued[j].id

\* the box is referenced by the slot of the live cell
InCell(b) == IF cell.state = "live" /\ cell.data = b THEN 1 ELSE 0

\* calls that have exchanged the box out of the slot and still hold it raw
Held(b) ==
    Cardinality({t \in CellThreads :
        cell_call[t].pc = "swapped" /\ cell_call[t].old = b})

\* C13: every value that entered the cell through new, swap or set leaves
\* it exactly once: it is in the slot, or held by the call that exchanged
\* it out, or was returned to one caller, or was dropped once (displaced by
\* set, or at the destruction of the cell); once the cell is destroyed
\* every value has been returned or dropped exactly once.
C13_EveryValueLeavesOnce ==
    /\ \A b \in Boxes :
        IF b <= allocated
        THEN returned[b] + dropped[b] + InCell(b) + Held(b) = 1
        ELSE returned[b] = 0 /\ dropped[b] = 0
    /\ cell.state = "dropped" =>
        \A b \in 1..allocated : returned[b] + dropped[b] = 1

\* a destroyed cell: one value went back to a caller, one was displaced by
\* set and dropped, one was still held and dropped with the cell
C13_Witness ==
    /\ cell.state = "dropped"
    /\ cell_log[Len(cell_log)].old # NULL
    /\ \E b \in 1..allocated : returned[b] = 1
    /\ \E i \in 1..Len(cell_log) :
        cell_log[i].op = "set" /\ cell_log[i].old # NULL

\* every thread has finished its one swap
AllSwapped ==
    \A t \in CellThreads :
        cell_call[t].op = "swap" /\ cell_call[t].pc = "idle"

Orders ==
    {o \in [1..Cardinality(CellThreads) -> CellThreads] :
        \A i, j \in DOMAIN o : i # j => o[i] # o[j]}

\* what the swaps return and leave behind when run one after another in
\* the given order on a slot holding init
SequentialOutcome(init, order) ==
    LET pos(t) == CHOOSE k \in DOMAIN order : order[k] = t
    IN  [ret |-> [t \in CellThreads |->
                    IF pos(t) = 1
                    THEN (IF init = NULL THEN None ELSE Some(init))
                    ELSE cell_call[order[pos(t) - 1]].val],
         final |-> unwrap(cell_call[order[Len(order)]].val)]

\* C14: after every thread has done one concurrent swap of a value of its
\* own, the cell holds exactly one of the exchanged values, the returned
\* values together with the final content are the initial content and the
\* exchanged values, each once, and the outcome is that of the swaps run
\* in some sequential order.
C14_ConcurrentSwapsLinearize ==
    AllSwapped =>
        LET init == cell_log[1].new
            exchanged == {unwrap(cell_call[t].val) : t \in CellThreads}
            all == exchanged \cup (IF init = NULL THEN {} ELSE {init})
            got(b) == Cardinality({t \in CellThreads :
                                      cell_call[t].ret = Some(b)})
        IN  /\ Cardinality(exchanged) = Cardinality(CellThreads)
            /\ cell.data \in exchanged
            /\ \A b \in all : got(b) + InCell(b) = 1
            /\ \A t \in CellThreads :
                    is_some(cell_call[t].ret)
                        => unwrap(cell_call[t].ret) \in all
            /\ \E order \in Orders :
                    LET seq == SequentialOutcome(init, order)
                    IN  /\ cell.data = seq.final
                        /\ \A t \in CellThreads :
                                cell_call[t].ret = seq.ret[t]

\* all swaps done on a cell created with a value, the exchanges having
\* happened in another order than the order of the values
C14_Witness ==
    /\ AllSwapped
    /\ cell_log[1].new # NULL
    /\ cell_log[2].thread = 3
    /\ cell_log[4].thread = 1
    /\ cell.data = unwrap(cell_call[1].val)

\* the last exchange on the cell is a finished take by t and no call on
\* the cell is running
TakeDone(t) ==
    /\ cell.state = "live"
    /\ Len(cell_log) > 1
    /\ cell_log[Len(cell_log)].op = "take"
    /\ cell_log[Len(cell_log)].thread = t
    /\ \A u \in CellThreads : cell_call[u].pc = "idle"

\* C15: with no concurrent access, take() right after set(v) returns v
\* and leaves the cell empty, and take() on an empty cell returns nothing
\* and leaves it empty.
C15_TakeAfterSet ==
    \A t \in CellThreads :
        TakeDone(t) =>
            LET before == cell_log[Len(cell_log) - 1]
            IN  /\ before.op = "set" =>
                    /\ cell_call[t].ret = Some(before.new)
                    /\ cell.data = NULL
                /\ before.new = NULL =>
                    /\ cell_call[t].ret = None
                    /\ cell.data = NULL

\* set(v), take() returning v, then take() on the emptied cell
C15_Witness ==
    /\ Len(cell_log) = 4
    /\ cell_log[2].op = "set"
    /\ cell_log[3].op = "take"
    /\ cell_log[4].op = "take"
    /\ cell_log[3].thread # cell_log[4].thread
    /\ TakeDone(cell_log[4].thread)
    /\ cell_call[cell_log[3].thread].ret = Some(cell_log[2].new)
    /\ cell_call[cell_log[4].thread].ret = None

\* C16: waker_ref, k clones, and the k + 1 handles dropped in any order
\* with no wake and no wake_by_ref in between leave the strong count at
\* its value before waker_ref.
C16_CloneDropNetZero ==
    ( /\ wakers[0] = "dropped"
      /\ \A i \in Clones : wakers[i] \in {"none", "dropped"}
      /\ wake_calls = 0
      /\ wake_by_ref_calls = 0 )
    => strong = base

\* the WakerRef and every possible clone of it have been dropped, on an
\* Arc that had been cloned before
C16_Witness ==
    /\ \A i \in Handles0 : wakers[i] = "dropped"
    /\ wake_calls = 0
    /\ wake_by_ref_calls = 0
    /\ base = MaxArcs
    /\ drop_calls = MaxClones

\* C17: the consuming wake on a cloned waker invokes Wake::wake exactly
\* once and lowers the strong count by exactly one; the drop entry is not
\* run for that handle.
C17_WakeConsumesOneCount ==
    [][\A i \in Clones :
        (wakers[i] = "live" /\ wakers'[i] = "woken")
        => /\ wake_calls' = wake_calls + 1
           /\ wake_by_ref_calls' = wake_by_ref_calls
           /\ strong' = strong - 1
           /\ drop_calls' = drop_calls]_vars

\* a clone has been woken by value while the WakerRef and another clone
\* are still live
C17_Witness ==
    /\ wake_calls = 1
    /\ wakers[0] = "live"
    /\ \E i, j \in Clones : wakers[i] = "woken" /\ wakers[j] = "live"
    /\ strong = base + 1

\* C18: wake_by_ref on the WakerRef or on a clone of it invokes
\* Wake::wake_by_ref exactly once and leaves the strong count, and every
\* handle, as it was.
C18_WakeByRefKeepsCount ==
    [][by_ref_on' # by_ref_on \/ wake_by_ref_calls' # wake_by_ref_calls
        => /\ wake_by_ref_calls' = wake_by_ref_calls + 1
           /\ wake_calls' = wake_calls
           /\ strong' = strong
           /\ wakers' = wakers
           /\ drop_calls' = drop_calls]_vars

\* wake_by_ref has been called on the WakerRef and on a clone
C18_Witness ==
    /\ wake_by_ref_calls = 2
    /\ 0 \in by_ref_on
    /\ \E i \in Clones : i \in by_ref_on
    /\ strong > base

\* C19: Runtime::block_on drives the future to completion: a thread that
\* is inside block_on eventually is not any more, the call has returned.
C19_BlockOnReturns ==
    \A t \in Threads : Stuck(t) ~> ~Stuck(t)

\* the enter_runtime calls thread t has made, finished or still running
EnterCalls(t) == Len(calls[t]) + LiveCalls(t)

\* C20: each call of Runtime::block_on invokes enter_runtime exactly once,
\* with the handle of the runtime it is called on, and that is the first
\* thing it does.
C20_BlockOnEntersOnce ==
    [][/\ block_on_calls' # block_on_calls =>
            \E t \in Threads, rt \in Runtimes :
                block_on_calls' =
                    Append(block_on_calls, [thread |-> t, rt |-> rt])
       /\ \A t \in Threads, rt \in Runtimes :
            block_on_calls' = Append(block_on_calls, [thread |-> t, rt |-> rt])
            => /\ EnterCalls(t)' = EnterCalls(t) + 1
               /\ lastOp'[t].op \in EnterOps
               /\ lastOp'[t].h = Some(rt)
               /\ lastOp'[t].op = "enter" =>
                    /\ Top(t)'.kind = "block_on"
                    /\ Top(t)'.h = rt
                    /\ CONTEXT'[t].current.handle = Some(rt)]_vars

\* block_on was called on the second runtime and has entered it
C20_Witness ==
    /\ Len(block_on_calls) = 1
    /\ block_on_calls[1] = [thread |-> MainThread, rt |-> 2]
    /\ Stuck(MainThread)
    /\ lastOp[MainThread].op = "enter"
    /\ CONTEXT[MainThread].current.handle = Some(2)

\* C21: the context is per thread: an enter_runtime or set_current step of
\* one thread (and the release of its guard) leaves the entered flag, the
\* current handle, the depth and the rng of every other thread as they
\* were, and a thread entering a runtime for the first time does not abort
\* with the reentrancy diagnostic, whatever the other threads are inside.
C21_ContextPerThread ==
    [][\A t \in Threads :
        lastOp'[t] # lastOp[t]
        => /\ \A u \in Threads \ {t} : CONTEXT'[u] = CONTEXT[u]
           /\ panicking'[t] # REENTRANT_MSG
           /\ lastOp'[t].op # "enter_abort"]_vars

\* both threads are inside an enter_runtime closure of their own
C21_Witness ==
    \A t \in Threads :
        /\ Len(stack[t]) = 1
        /\ stack[t][1].kind = "enter_runtime"
        /\ stack[t][1].h = t
        /\ CONTEXT[t].runtime = Entered(TRUE)
        /\ CONTEXT[t].current = [handle |-> Some(t), depth |-> 1]
        /\ panicking[t] = NoPanic

C23_FastrandNInRange ==
    \A i \in RandInstances : \A k \in 1..Len(outs[i]) :
        (script[k][1] = "fastrand_n" /\ ~IsZero(script[k][2]))
        => Less(outs[i][k], script[k][2])

\* fastrand_n(1000) has returned 496 and fastrand_n(3) has returned 1
C23_Witness ==
    \E i, j \in RandInstances :
        /\ Len(outs[i]) > 0
        /\ script[1] = <<"fastrand_n", U32(1000)>>
        /\ outs[i][1] = U32(496)
        /\ Len(outs[j]) = 2
        /\ script[2] = <<"fastrand_n", U32(3)>>
        /\ outs[j][2] = U32(1)

\* C24: every id ThreadId::next() returns is non-zero and differs from
\* the id of every other call, whatever the interleaving, failed exchanges
\* and retries included; a call that finds the counter exhausted panics
\* and returns nothing.
C24_ThreadIdsUnique ==
    [][/\ \A i \in 1..Len(tid_issued') :
            /\ tid_issued'[i].id > 0
            /\ \A j \in 1..Len(tid_issued') :
                    i # j => tid_issued'[i].id # tid_issued'[j].id
       /\ \A t \in Threads :
            (tid_pc[t] = "loop" /\ tid_last[t] = TID_MAX /\ tid_pc'[t] = "idle")
            => /\ t \in tid_panicked'
               /\ tid_issued' = tid_issued
       /\ \A t \in Threads :
            (t \in tid_panicked' /\ t \notin tid_panicked)
            => tid_last[t] = TID_MAX /\ TID_NEXT_ID = TID_MAX]_vars

\* both threads obtained ids, every id has been handed out, and the call
\* after that panicked
C24_Witness ==
    /\ Len(tid_issued) = TID_MAX
    /\ \E i, j \in 1..Len(tid_issued) :
            tid_issued[i].thread # tid_issued[j].thread
    /\ tid_panicked # {}

\* C25: when a Scoped::set call exits, by the return of f or by its panic,
\* the cell holds exactly the pointer it held when set was called: the
\* enclosing set's value, or null; while f runs the cell holds t.
C25_SetRestoresOnExit ==
    /\ scoped_exit.how # "none" => scoped_exit.now = scoped_exit.held
    /\ scoped_exit.how # "none" =>
            scoped_inner = IF scoped_frames = <<>> THEN NULL
                           ELSE scoped_frames[Len(scoped_frames)].t
    /\ \A i \in 1..Len(scoped_frames) :
            scoped_frames[i].held = IF i = 1 THEN NULL
                                    ELSE scoped_frames[i - 1].t

\* a nested set call left by a panic, the enclosing set's value is back
C25_Witness ==
    /\ scoped_exit.how = "panicked"
    /\ scoped_exit.held # NULL
    /\ scoped_exit.t # scoped_exit.held
    /\ scoped_inner = scoped_exit.held
    /\ Len(scoped_frames) = 1

\* C26: between enter_runtime steps the entered flag of a thread is set
\* exactly when a current handle is installed, and when the guard of an
\* enter_runtime call is released (by return or by unwinding) the two are
\* cleared together.
C26_EnteredIffHandle ==
    \A t \in Threads :
        /\ is_entered(CONTEXT[t].runtime) <=> is_some(CONTEXT[t].current.handle)
        /\ ( /\ lastOp[t].op \in {"exit", "exit_unwind"}
             /\ ~is_entered(Pre(t).runtime) )
           => /\ ~is_entered(CONTEXT[t].runtime)
              /\ CONTEXT[t].current.handle = None

\* C27: the release of an enter_runtime guard undoes the acquisition in
\* reverse: the handle recorded in the guard is current again, then the
\* generator is reseeded with the guard's old seed, then the flag is
\* cleared; the depth is already back when the handle is restored.
C27_ReleaseReverseOrder ==
    \A t \in Threads :
        lastOp[t].op \in {"exit", "exit_unwind"}
        => LET handle_back == [CONTEXT[t] EXCEPT !.current = Pre(t).current]
               seed_back == [handle_back EXCEPT
                               !.rng = Some(from_seed(lastOp[t].ret[1]))]
               flag_back == [seed_back EXCEPT !.runtime = NotEntered]
           IN  /\ Pre(t).runtime = NotEntered
               /\ CONTEXT[t] = flag_back

\* C28: a set_current call made below the maximum depth raises the depth
\* by exactly one and its guard records the new depth; a call made at the
\* maximum depth panics with the depth message, hands out no guard and
\* leaves the depth at the maximum.
C28_DepthIncrementOrPanic ==
    \A t \in Threads :
        lastOp[t].op \in {"set_current", "set_current_panic"}
        => IF Pre(t).current.depth = USIZE_MAX
           THEN /\ lastOp[t].op = "set_current_panic"
                /\ panicking[t] = DEPTH_MSG
                /\ CONTEXT[t].current.depth = USIZE_MAX
                /\ CONTEXT[t].current.depth # 0
           ELSE /\ lastOp[t].op = "set_current"
                /\ CONTEXT[t].current.depth = Pre(t).current.depth + 1
                /\ unwrap(Top(t).guard).depth = Pre(t).current.depth + 1

\* a set_current call at the maximum depth has just panicked
C28_Witness ==
    /\ lastOp[MainThread].op = "set_current_panic"
    /\ Pre(MainThread).current.depth = USIZE_MAX
    /\ panicking[MainThread] = DEPTH_MSG

\* C29: the depth of a thread is the number of its guards not yet released:
\* the SetCurrentGuards of set_current calls and those inside the guards of
\* enter_runtime calls in progress.
C29_DepthCountsLiveGuards ==
    \A t \in Threads :
        CONTEXT[t].current.depth =
            Cardinality({i \in 1..Len(stack[t]) : is_some(stack[t][i].guard)})

\* C30: an enter_runtime call made on a thread that is already entered
\* changes nothing in the thread's context (flag with its
\* allow_block_in_place value, generator, handle, depth) and draws no seed
\* from any handle's seed generator.
C30_AbortLeavesContext ==
    [][\A t \in Threads :
         ( /\ lastOp'[t] # lastOp[t]
           /\ lastOp'[t].op \in EnterOps
           /\ is_entered(CONTEXT[t].runtime) )
         => /\ CONTEXT'[t].runtime = CONTEXT[t].runtime
            /\ CONTEXT'[t].rng = CONTEXT[t].rng
            /\ CONTEXT'[t].current = CONTEXT[t].current
            /\ seed_generator' = seed_generator
            /\ calls'[t][Len(calls'[t])].seed = None]_vars

\* a call has aborted on a thread entered with allow_block_in_place =
\* FALSE, after a handle's generator had given the one seed of the first call
C30_Witness ==
    /\ lastOp[MainThread].op = "enter_abort"
    /\ Pre(MainThread).runtime = Entered(FALSE)
    /\ CONTEXT[MainThread].runtime = Entered(FALSE)
    /\ calls[MainThread][Len(calls[MainThread])].outcome = "aborted"
    /\ \E h \in Handles : seed_generator[h] = 1

\* C31: a set_current call that panics on the depth check leaves the
\* thread's current handle and depth as they were before the call.
C31_FailedInstallNoEffect ==
    \A t \in Threads :
        lastOp[t].op = "set_current_panic"
        => /\ CONTEXT[t].current.handle = Pre(t).current.handle
           /\ CONTEXT[t].current.depth = Pre(t).current.depth

\* C32: from waker_ref on, whatever clone, drop, wake and wake_by_ref
\* calls are made on the WakerRef and its clones, the strong count is its
\* value before waker_ref plus the number of clones neither dropped nor
\* woken by value; it is never below that value, which is at least one, so
\* the allocation is not released.
C32_CountTracksLiveClones ==
    wakers[0] # "none"
    => /\ strong = base + Cardinality({i \in Clones : wakers[i] = "live"})
       /\ strong >= base
       /\ base >= 1

\* the WakerRef is gone after a wake_by_ref; one clone has been dropped or
\* woken by value and another is still live
C32_Witness ==
    /\ wakers[0] = "dropped"
    /\ \E i, j \in Clones : wakers[i] = "live" /\ wakers[j] \in {"dropped", "woken"}
    /\ wake_by_ref_calls > 0
    /\ strong = base + 1

\* C33: waker_ref leaves the strong count as it is, and so does the drop of
\* the WakerRef: created and dropped with no clone made, the count is what
\* it was.
C33_WakerRefNeutral ==
    [][wakers'[0] # wakers[0]
        => /\ strong' = strong
           /\ drop_calls' = drop_calls
           /\ ( /\ wakers'[0] = "dropped"
                /\ \A i \in Clones : wakers[i] = "none" )
              => strong' = base]_vars

\* a WakerRef was made from an Arc with more than one owner and dropped
\* without a clone of it having been made
C33_Witness ==
    /\ wakers[0] = "dropped"
    /\ \A i \in Clones : wakers[i] = "none"
    /\ drop_calls = 0
    /\ base = MaxArcs
    /\ strong = MaxArcs

\* C34: the seed RngSeed::new() makes from a 64-bit hash has a non-zero r:
\* r is 1 when the low 32 bits of the hash are zero and is those bits
\* otherwise, and s is the high 32 bits.
C34_SeedSecondWordNonZero ==
    is_some(new_seed)
    => LET hash == unwrap(new_seed).hash
           seed == unwrap(new_seed).seed
           low == SubSeq(hash, 1, U32Bits)
           high == SubSeq(hash, U32Bits + 1, 2 * U32Bits)
       IN  /\ \E i \in 1..U32Bits : seed.r[i] = 1
           /\ seed.r = IF \A i \in 1..U32Bits : low[i] = 0
                       THEN <<1>> \o [i \in 1..(U32Bits - 1) |-> 0]
                       ELSE low
           /\ seed.s = high

\* a hash with a non-zero high word and a zero low word has been turned
\* into a seed
C34_Witness ==
    /\ is_some(new_seed)
    /\ unwrap(new_seed).hash = U64(5, 0)
    /\ unwrap(new_seed).seed = from_pair(U32(5), U32(1))

\* C35: on a thread whose context thread-local has been destroyed,
\* with_current returns the ThreadLocalDestroyed error, not NoContext, and
\* does not call its closure; spawn panics with that error's message, gives
\* no JoinHandle and does not call handle.spawn.
C35_ThreadLocalDestroyed ==
    \A t \in Threads :
        destroyed[t]
        => /\ lastOp[t].op = "with_current"
              => /\ lastOp[t].ret = <<"Err", "ThreadLocalDestroyed">>
                 /\ lastOp[t].fcalls = 0
           /\ lastOp[t].op = "spawn"
              => /\ panicking[t] = THREAD_LOCAL_DESTROYED_ERROR
                 /\ panicking[t] # NoPanic
                 /\ lastOp[t].ret = None
                 /\ lastOp[t].fcalls = 0

\* a spawn on the torn-down thread has just panicked
C35_Witness ==
    /\ destroyed[MainThread]
    /\ lastOp[MainThread].op = "spawn"
    /\ panicking[MainThread] = THREAD_LOCAL_DESTROYED_ERROR
    /\ spawned = <<>>

\* C36: spawn takes its id before it looks for the current handle: the
\* first step of every spawn call advances the process-wide counter by
\* one, whether or not the call then finds a handle; the lookup leaves the
\* counter alone, and the id a successful spawn hands to the scheduler is
\* the one taken at the start, different from the id of every other spawn
\* call, finished or under way.
C36_IdBeforeHandle ==
    [][/\ NEXT_ID' = 1 + spawn_calls'
       /\ \A t \in Threads :
            /\ (pc[t] = "idle" /\ pc'[t] = "spawn_resolve")
               => /\ NEXT_ID' = NEXT_ID + 1
                  /\ local_id'[t] = NEXT_ID
                  /\ spawned' = spawned
            /\ (pc[t] = "spawn_resolve" /\ pc'[t] = "idle")
               => /\ NEXT_ID' = NEXT_ID
                  /\ local_id[t] > 0
                  /\ local_id[t] < NEXT_ID
                  /\ \A u \in Threads \ {t} : local_id[u] # local_id[t]
                  /\ \A i \in 1..Len(spawned) : spawned[i].id # local_id[t]
                  /\ spawned' # spawned
                     => spawned' = Append(spawned, spawned'[Len(spawned')])
                        /\ spawned'[Len(spawned')].id = local_id[t]]_vars

\* one spawn failed for want of a handle and a later one, inside a runtime,
\* reached its scheduler with the second id
C36_Witness ==
    /\ spawn_calls = 2
    /\ NEXT_ID = 3
    /\ Len(spawned) = 1
    /\ spawned[1].id = 2
    /\ \E t \in Threads :
          /\ lastOp[t].op = "spawn"
          /\ lastOp[t].ret = None
          /\ panicking[t] = CONTEXT_MISSING_ERROR

\* C37: Scoped::with gives its closure the value of the innermost set call
\* in progress, and None when there is none; once an inner set has exited,
\* that is the value of the set around it again.
C37_WithSeesInnermost ==
    [][scoped_seen' # scoped_seen
        => scoped_seen' =
             IF scoped_frames = <<>> THEN <<"None">>
             ELSE <<"Some", scoped_frames[Len(scoped_frames)].t>>]_vars

\* with has yielded the outer set's value after a nested set of another
\* value returned
C37_Witness ==
    /\ Len(scoped_frames) = 1
    /\ scoped_exit.how = "returned"
    /\ scoped_exit.t # scoped_frames[1].t
    /\ scoped_seen = <<"Some", scoped_frames[1].t>>
    /\ scoped_inner = scoped_frames[1].t

\* C38: once a request has been answered Success on a thread, every later
\* request on that thread is answered SuccessAlreadyLoggedIn; and a request
\* is answered SuccessAlreadyLoggedIn only after a Success on its own
\* thread, whatever the other threads did.
C38_LoginSticksPerThread ==
    \A t \in Threads :
        /\ \A i, j \in 1..Len(responses[t]) :
              (i < j /\ responses[t][i].status = "Success")
              => responses[t][j].status = "SuccessAlreadyLoggedIn"
        /\ \A j \in 1..Len(responses[t]) :
              responses[t][j].status = "SuccessAlreadyLoggedIn"
              => \E i \in 1..(j - 1) : responses[t][i].status = "Success"

====
